---------------------------- MODULE Spec2Model ----------------------------
(***************************************************************************)
(* A model of src/src/news_agent.py: the daily news digest run (main) and  *)
(* the helpers it is built from.                                           *)
(*                                                                         *)
(* Representation.                                                         *)
(*   - A Python str is a sequence of one-character strings; "" is <<>>.    *)
(*   - An optional value (None or a value) is <<>> or <<v>>, so that       *)
(*     Python's truthiness test `if x` / `not x` is  x # <<>> / x = <<>>.  *)
(*   - feedparser's published_parsed is a UTC struct_time; it is           *)
(*     represented by the instant its fields denote when read as UTC       *)
(*     (seconds since the epoch, an integer, possibly negative).           *)
(*   - The host's local timezone is utcoff: local time = UTC + utcoff.     *)
(***************************************************************************)
EXTENDS Integers, Sequences, FiniteSets, TLC

VARIABLES
    pc,        \* position of the run, or of the function being applied
    env,       \* os.environ: the four credential variables
    config,    \* the parsed config.yaml
    utcoff,    \* host timezone offset in seconds (read by time.mktime)
    now,       \* datetime.now(timezone.utc), seconds since the epoch
    feeds,     \* main: the feed plan
    idx,       \* main: number of feeds of the plan already fetched
    items,     \* main: the item list
    admitted,  \* the item list as collected by the fetch loop, before uniq
    sent,      \* number of send_email calls made
    failed,    \* the feeds (positions in the plan) whose fetch failed
    arg,       \* arguments of the function being applied
    ret        \* its return value

vars == <<pc, env, config, utcoff, now, feeds, idx, items, admitted, sent, failed, arg, ret>>

----------------------------------------------------------------------------
(* Generic helpers *)

Range(s) == {s[i] : i \in 1..Len(s)}

Reverse(s) == [i \in 1..Len(s) |-> s[Len(s) + 1 - i]]

SeqsUpTo(S, n) == UNION {[1..k -> S] : k \in 0..n}

RECURSIVE Flatten(_)
Flatten(ss) == IF ss = <<>> THEN <<>> ELSE Head(ss) \o Flatten(Tail(ss))

Max(a, b) == IF a >= b THEN a ELSE b

\* Python's truthiness of a str / list / optional
Truthy(x) == x # <<>>

\* Python's `a or b`
Or(a, b) == IF Truthy(a) THEN a ELSE b

----------------------------------------------------------------------------
(* Strings *)

NL == "\n"

\* str.lower(), one character
LowerChar(c) ==
    CASE c = "A" -> "a"
      [] c = "C" -> "c"
      [] OTHER -> c

\* str.lower()
Lower(s) == [i \in 1..Len(s) |-> LowerChar(s[i])]

\* Python's `k in t` for str
IsSubstr(k, t) ==
    \E i \in 0..(Len(t) - Len(k)) : SubSeq(t, i + 1, i + Len(k)) = k

----------------------------------------------------------------------------
(* uniq, lines 51-59 *)

\* key is a function on the items: key[item]
RECURSIVE uniqLoop(_, _, _, _)
uniqLoop(seq, key, seen, res) ==
    IF seq = <<>> THEN res
    ELSE LET item == Head(seq)
             k == key[item]
         IN IF k \notin seen
            THEN uniqLoop(Tail(seq), key, seen \cup {k}, Append(res, item))
            ELSE uniqLoop(Tail(seq), key, seen, res)

RECURSIVE uniqLastLoop(_, _, _)
uniqLastLoop(seq, key, res) ==
    IF seq = <<>> THEN res
    ELSE LET item == Head(seq)
             k == key[item]
         IN uniqLastLoop(Tail(seq), key,
                Append(SelectSeq(res, LAMBDA r : key[r] # k), item))

\* faulty variant: a later occurrence of a key replaces the earlier one
uniq_keepLast(seq, key) == uniqLastLoop(seq, key, <<>>)

uniq(seq, key) == uniqLoop(seq, key, {}, <<>>)

\* the key main passes to uniq, line 173: x["link"] or x["title"]
DedupKey(x) == Or(x.link, x.title)

----------------------------------------------------------------------------
(* time *)

DaySecs == 86400

\* time.mktime(struct_time): the fields are read as LOCAL time, so fields that
\* denote the UTC instant t give the instant t - utcoff.
mktime(t, off) == t - off

\* within_last_days, lines 61-65.  nowUtc is datetime.now(timezone.utc).
within_last_days(published_parsed, days, nowUtc, off) ==
    IF ~Truthy(published_parsed) THEN TRUE
    ELSE LET published_dt == mktime(published_parsed[1], off)
         IN published_dt >= nowUtc - days * DaySecs

\* sort_key, lines 176-180
sort_key(x, off) ==
    IF Truthy(x.published_parsed) THEN mktime(x.published_parsed[1], off) ELSE 0

----------------------------------------------------------------------------
(* list.sort(key=..., reverse=True), line 181.  CPython reverses the list, *)
(* sorts it stably in ascending key order, and reverses it again.          *)

\* insert x after every element whose key is <= key[x]
RECURSIVE InsertAsc(_, _, _)
InsertAsc(s, x, key) ==
    IF s = <<>> THEN <<x>>
    ELSE IF key[Head(s)] <= key[x]
         THEN <<Head(s)>> \o InsertAsc(Tail(s), x, key)
         ELSE <<x>> \o s

RECURSIVE StableSortAsc(_, _)
StableSortAsc(s, key) ==
    IF s = <<>> THEN <<>>
    ELSE InsertAsc(StableSortAsc(SubSeq(s, 1, Len(s) - 1), key), s[Len(s)], key)

\* faulty variant: sort ascending, then reverse (equal keys come out in reverse order)
SortDesc_reverseAfter(s, key) == Reverse(StableSortAsc(s, key))

\* faulty variant: the list is left in the order in which it was collected
SortDesc_omitted(s, key) == s

SortDesc(s, key) == Reverse(StableSortAsc(Reverse(s), key))

----------------------------------------------------------------------------
(* the slice items[:max_items], line 184 *)

\* Python's s[:n]: a negative n counts from the end
SliceTo(s, n) ==
    LET stop == IF n < 0 THEN Max(Len(s) + n, 0)
                ELSE IF n > Len(s) THEN Len(s) ELSE n
    IN SubSeq(s, 1, stop)

----------------------------------------------------------------------------
(* matches_keywords, lines 67-75 *)

AnyKeywordIn(keywords, t) ==
    \E i \in 1..Len(keywords) : IsSubstr(Lower(keywords[i]), t)

\* faulty variant: the exclude list is consulted only when there is no include list
matches_keywords_elif(text, includes, excludes) ==
    LET t == Lower(text)
    IN IF Truthy(includes) THEN AnyKeywordIn(includes, t)
       ELSE IF Truthy(excludes) THEN ~AnyKeywordIn(excludes, t)
       ELSE TRUE

matches_keywords(text, includes, excludes) ==
    LET t == Lower(text)
    IN IF Truthy(includes) /\ ~AnyKeywordIn(includes, t) THEN FALSE
       ELSE IF Truthy(excludes) /\ AnyKeywordIn(excludes, t) THEN FALSE
       ELSE TRUE

----------------------------------------------------------------------------
(* env_or_config, lines 21-23: os.getenv(key) or config email value or default *)

env_or_config(envValue, configValue, default) == Or(Or(envValue, configValue), default)

NoReply == <<"n">>   \* "no-reply@example.com"

smtp_user  == env_or_config(env.SMTP_USER, config.email.smtp_user, <<>>)
smtp_pass  == env_or_config(env.SMTP_PASS, config.email.smtp_pass, <<>>)
to_email   == env_or_config(env.TO_EMAIL, config.email.to_email, <<>>)
from_email == env_or_config(env.FROM_EMAIL, config.email.from_email, Or(smtp_user, NoReply))

----------------------------------------------------------------------------
(* iso_region_to_params and google_news_search_feed, lines 25-49 *)

\* str.upper() on the region codes the model uses
Upper(code) ==
    CASE code = "us" -> "US"
      [] code = "fr" -> "FR"
      [] OTHER -> code

iso_region_to_params(region_code) ==
    LET c == Upper(region_code)
    IN CASE c = "US" -> <<"en-US", "US", "US:en">>
         [] c = "GB" -> <<"en-GB", "GB", "GB:en">>
         [] c = "CA" -> <<"en-CA", "CA", "CA:en">>
         [] c = "AU" -> <<"en-AU", "AU", "AU:en">>
         [] c = "IN" -> <<"en-IN", "IN", "IN:en">>
         [] c = "FR" -> <<"fr", "FR", "FR:fr">>
         [] c = "DE" -> <<"de", "DE", "DE:de">>
         [] c = "ES" -> <<"es", "ES", "ES:es">>
         [] c = "IT" -> <<"it", "IT", "IT:it">>
         [] c = "BR" -> <<"pt-BR", "BR", "BR:pt">>
         [] OTHER -> <<"en-US", "US", "US:en">>

\* urllib.parse.quote_plus on the queries the model uses
quote_plus(query) ==
    CASE query = "top stories" -> "top+stories"
      [] OTHER -> query

\* the URL, as the values substituted into the f-string of line 49
google_news_search_feed(query, region_code) ==
    LET params == iso_region_to_params(region_code)
    IN [q |-> quote_plus(query), when |-> "1d",
        hl |-> params[1], gl |-> params[2], ceid |-> params[3]]

----------------------------------------------------------------------------
(* main, lines 128-142: the feed plan *)

DefaultRegions == <<"US">>
DefaultQueries == <<"technology", "business">>

\* dict.get(key, default) for a key that is absent (<<>>) or present (<<v>>)
Get(opt, default) == IF opt = <<>> THEN default ELSE opt[1]

\* the feeds of one region, for one label and one query list
RegionFeeds(label, r, queries) ==
    [j \in 1..Len(queries) |->
        [sector |-> label, region |-> r, url |-> google_news_search_feed(queries[j], r)]]

LabelFeeds(label, regions, queries) ==
    Flatten([i \in 1..Len(regions) |-> RegionFeeds(label, regions[i], queries)])

BuildFeeds(cfg) ==
    LET regions == Get(cfg.regions, DefaultRegions)
        sectors == cfg.sectors
    IN IF ~Truthy(sectors)
       THEN LabelFeeds("General", regions, Get(cfg.queries, DefaultQueries))
       ELSE Flatten([k \in 1..Len(sectors) |->
                LabelFeeds(Get(sectors[k].name, "Sector"), regions, sectors[k].queries)])

----------------------------------------------------------------------------
(* main, lines 147-170: one entry of a fetched feed *)

\* line 157: f"{title}\n{summary}\n{link}\n{source or ''}"
Blob(e) ==
    e.title \o <<NL>> \o e.summary \o <<NL>> \o e.link \o <<NL>> \o Get(e.source, <<>>)

\* lines 149-159: the entry passes the date filter and the keyword filter
Admits(e, cfg, nowUtc, off) ==
    /\ within_last_days(e.published_parsed, cfg.days_window, nowUtc, off)
    /\ matches_keywords(Blob(e), cfg.keywords_include, cfg.keywords_exclude)

\* lines 161-170
NewsRecord(e, sector_name, region_code) ==
    [title |-> e.title, summary |-> e.summary, link |-> e.link, source |-> e.source,
     sector |-> sector_name, region |-> region_code,
     published |-> e.published, published_parsed |-> e.published_parsed]

\* lines 147-170: the records one feed appends to items
RECURSIVE FeedItems(_, _, _, _, _)
FeedItems(entries, feed, cfg, nowUtc, off) ==
    IF entries = <<>> THEN <<>>
    ELSE LET e == Head(entries)
             rest == FeedItems(Tail(entries), feed, cfg, nowUtc, off)
         IN IF Admits(e, cfg, nowUtc, off)
            THEN <<NewsRecord(e, feed.sector, feed.region)>> \o rest
            ELSE rest

----------------------------------------------------------------------------
(* Bounds and input domains of the run *)

MaxEntries == 2     \* entries in one fetched feed

Now0 == 20000 * DaySecs

EnvValues == {<<>>, <<"e">>}

Environments ==
    [SMTP_USER : EnvValues, SMTP_PASS : EnvValues, TO_EMAIL : EnvValues, FROM_EMAIL : EnvValues]

NoEmailSection ==
    [smtp_user |-> <<>>, smtp_pass |-> <<>>, to_email |-> <<>>, from_email |-> <<>>]

EmailSections == {NoEmailSection, [NoEmailSection EXCEPT !.smtp_user = <<"c">>]}

TechSector == [name |-> <<"Tech">>, queries |-> <<"ai">>]

RunConfigs ==
    [regions : {<<>>, << <<"fr">> >>},
     sectors : {<<>>, <<TechSector>>},
     queries : {<<>>},
     keywords_include : {<< <<"a">> >>},
     keywords_exclude : {<< <<"C">> >>},
     max_items : {-1, 2, 40},
     days_window : {1},
     email : EmailSections]

\* what feedparser can hand back for one entry
RawEntries ==
    [title : {<<"A">>}, summary : {<<>>}, link : {<<>>, <<"x">>, <<"c">>},
     source : {<<>>}, published : {<<>>},
     published_parsed : {<<>>, <<Now0 - 3600>>, <<Now0 - 2 * DaySecs>>}]

----------------------------------------------------------------------------
(* main as a state machine *)

\* faulty variant: the message is printed but the run is not ended
CheckCredentials_noExit ==
    /\ pc = "start"
    /\ pc' = "plan"
    /\ UNCHANGED <<env, config, utcoff, now, feeds, idx, items, admitted, sent, failed, arg, ret>>

\* lines 105-126: read the configuration; leave with status 1 when a
\* credential or address is missing
CheckCredentials ==
    /\ pc = "start"
    /\ pc' = IF smtp_user # <<>> /\ smtp_pass # <<>> /\ to_email # <<>> /\ from_email # <<>>
             THEN "plan" ELSE "exit1"
    /\ UNCHANGED <<env, config, utcoff, now, feeds, idx, items, admitted, sent, failed, arg, ret>>

\* lines 128-144
BuildPlan ==
    /\ pc = "plan"
    /\ feeds' = BuildFeeds(config)
    /\ items' = <<>>
    /\ idx' = 0
    /\ pc' = "fetch"
    /\ UNCHANGED <<env, config, utcoff, now, admitted, sent, failed, arg, ret>>

\* lines 145-170, one iteration: feedparser.parse returns a parsed feed
FetchFeed ==
    /\ pc = "fetch"
    /\ idx < Len(feeds)
    /\ \E entries \in SeqsUpTo(RawEntries, MaxEntries) :
          items' = items \o FeedItems(entries, feeds[idx + 1], config, now, utcoff)
    /\ idx' = idx + 1
    /\ UNCHANGED <<pc, env, config, utcoff, now, feeds, admitted, sent, failed, arg, ret>>

\* line 146: the fetch fails and feedparser reports it in the result (bozo),
\* with no entries: the loop body does not run for this feed
FetchFailsQuietly ==
    /\ pc = "fetch"
    /\ idx < Len(feeds)
    /\ idx' = idx + 1
    /\ failed' = failed \cup {idx + 1}
    /\ UNCHANGED <<pc, env, config, utcoff, now, feeds, items, admitted, sent, arg, ret>>

\* line 146: the fetch fails and feedparser.parse raises; main has no handler
FetchRaises ==
    /\ pc = "fetch"
    /\ idx < Len(feeds)
    /\ pc' = "crashed"
    /\ failed' = failed \cup {idx + 1}
    /\ UNCHANGED <<env, config, utcoff, now, feeds, idx, items, admitted, sent, arg, ret>>

\* the loop of line 145 is exhausted
FetchDone ==
    /\ pc = "fetch"
    /\ idx = Len(feeds)
    /\ admitted' = items
    /\ pc' = "dedup"
    /\ UNCHANGED <<env, config, utcoff, now, feeds, idx, items, sent, failed, arg, ret>>

\* line 173
Dedup ==
    /\ pc = "dedup"
    /\ items' = uniq(items, [x \in Range(items) |-> DedupKey(x)])
    /\ pc' = "sort"
    /\ UNCHANGED <<env, config, utcoff, now, feeds, idx, admitted, sent, failed, arg, ret>>

\* lines 176-181
Sort ==
    /\ pc = "sort"
    /\ items' = SortDesc(items, [x \in Range(items) |-> sort_key(x, utcoff)])
    /\ pc' = "cap"
    /\ UNCHANGED <<env, config, utcoff, now, feeds, idx, admitted, sent, failed, arg, ret>>

\* line 184
Cap ==
    /\ pc = "cap"
    /\ items' = SliceTo(items, config.max_items)
    /\ pc' = "send"
    /\ UNCHANGED <<env, config, utcoff, now, feeds, idx, admitted, sent, failed, arg, ret>>

\* lines 186-207: render and send
Send ==
    /\ pc = "send"
    /\ sent' = sent + 1
    /\ pc' = "done"
    /\ UNCHANGED <<env, config, utcoff, now, feeds, idx, items, admitted, failed, arg, ret>>

\* lines 96-98: the SMTP session fails before sendmail completes
SendFails ==
    /\ pc = "send"
    /\ pc' = "smtp_error"
    /\ UNCHANGED <<env, config, utcoff, now, feeds, idx, items, admitted, sent, failed, arg, ret>>

Init ==
    /\ pc = "start"
    /\ env \in Environments
    /\ config \in RunConfigs
    /\ utcoff = 0
    /\ now = Now0
    /\ feeds = <<>>
    /\ idx = 0
    /\ items = <<>>
    /\ admitted = <<>>
    /\ sent = 0
    /\ failed = {}
    /\ arg = <<>>
    /\ ret = <<>>

Next ==
    \/ CheckCredentials
    \/ BuildPlan
    \/ FetchFeed
    \/ FetchFailsQuietly
    \/ FetchRaises
    \/ FetchDone
    \/ Dedup
    \/ Sort
    \/ Cap
    \/ Send
    \/ SendFails

Spec == Init /\ [][Next]_vars

----------------------------------------------------------------------------
(* The aggregation steps of main (lines 172-184) on every admitted list *)

MaxRecs == 3        \* records collected by the fetch loop

AllSet == [SMTP_USER |-> <<"e">>, SMTP_PASS |-> <<"e">>, TO_EMAIL |-> <<"e">>, FROM_EMAIL |-> <<"e">>]

\* a window that reaches back before the epoch
AggConfigs ==
    [regions : {<<>>},
     sectors : {<<>>},
     queries : {<<>>},
     keywords_include : {<<>>},
     keywords_exclude : {<< <<"C">> >>},
     max_items : {-1, 0, 2, 40},
     days_window : {20001},
     email : {NoEmailSection}]

AggEntries ==
    [title : {<<"a">>, <<"b">>}, summary : {<<>>}, link : {<<>>, <<"a">>, <<"x">>},
     source : {<<>>}, published : {<<>>},
     published_parsed : {<<>>, <<0>>, <<7200>>}]

\* the records the fetch loop can have collected from the default plan
AggRecords(cfg, off) ==
    {NewsRecord(e, "General", "US") : e \in {x \in AggEntries : Admits(x, cfg, Now0, off)}}

InitAgg ==
    /\ pc = "dedup"
    /\ env = AllSet
    /\ config \in AggConfigs
    /\ utcoff \in {0, 3600}
    /\ now = Now0
    /\ feeds = BuildFeeds(config)
    /\ idx = Len(feeds)
    /\ items \in SeqsUpTo(AggRecords(config, utcoff), MaxRecs)
    /\ admitted = items
    /\ sent = 0
    /\ failed = {}
    /\ arg = <<>>
    /\ ret = <<>>

NextAgg ==
    \/ Dedup
    \/ Sort
    \/ Cap

SpecAgg == InitAgg /\ [][NextAgg]_vars

----------------------------------------------------------------------------
(* Claims about the aggregation *)

\* C1: the capped output has at most max(maxItems, 0) records: it is empty
\* when maxItems <= 0 and otherwise is the first maxItems records of the
\* sorted list (all of them when there are fewer).
C1_CapBounded ==
    [][(pc = "cap" /\ pc' = "send") =>
         LET m == config.max_items
         IN /\ Len(items') <= Max(m, 0)
            /\ m <= 0 => items' = <<>>
            /\ m > 0 => items' = SubSeq(items, 1, IF m < Len(items) THEN m ELSE Len(items))]_vars

Deduplicated == pc \in {"sort", "cap", "send", "done"}

KeysOf(s) == {DedupKey(s[i]) : i \in 1..Len(s)}

\* the first position of the list at which a record with this key stands
FirstWithKey(s, k) == CHOOSE i \in 1..Len(s) :
    /\ DedupKey(s[i]) = k
    /\ \A j \in 1..(i - 1) : DedupKey(s[j]) # k

\* C2: after deduplication every key among the admitted records is carried by
\* exactly one record, the first admitted one with that key, and no two
\* records of the list have the same key from then on.
C2_FirstOccurrenceWins ==
    /\ pc = "sort" =>
         \A k \in KeysOf(admitted) :
            /\ Cardinality({i \in 1..Len(items) : DedupKey(items[i]) = k}) = 1
            /\ \E i \in 1..Len(items) : items[i] = admitted[FirstWithKey(admitted, k)]
    /\ Deduplicated =>
         \A i, j \in 1..Len(items) : i # j => DedupKey(items[i]) # DedupKey(items[j])

\* two admitted records share a link and differ in title, and the list is deduplicated
C2_Witness ==
    /\ pc = "sort"
    /\ \E i, j \in 1..Len(admitted) :
          /\ i < j
          /\ admitted[i].link # <<>>
          /\ admitted[i].link = admitted[j].link
          /\ admitted[i].title # admitted[j].title
    /\ \E i, j \in 1..Len(admitted) :
          /\ admitted[i].link = <<>>
          /\ admitted[j].link # <<>>
          /\ DedupKey(admitted[i]) = DedupKey(admitted[j])

Sorted == pc \in {"cap", "send", "done"}

\* the position at which the record was encountered by the fetch loop
Encounter(r) == CHOOSE i \in 1..Len(admitted) :
    /\ admitted[i] = r
    /\ \A j \in 1..(i - 1) : admitted[j] # r

\* C3: the sorted list is in descending sort-key order, and records with
\* equal sort keys stand in the order in which they were encountered.
C3_SortedDescStable ==
    Sorted =>
      \A i, j \in 1..Len(items) :
         i < j =>
           /\ sort_key(items[i], utcoff) >= sort_key(items[j], utcoff)
           /\ sort_key(items[i], utcoff) = sort_key(items[j], utcoff)
                => Encounter(items[i]) < Encounter(items[j])

\* three records are sorted, two of them with equal keys, and the order changed
C3_Witness ==
    /\ pc = "cap"
    /\ Len(items) = 3
    /\ items # uniq(admitted, [x \in Range(admitted) |-> DedupKey(x)])
    /\ \E i \in 1..2 : sort_key(items[i], utcoff) = sort_key(items[i + 1], utcoff)
    /\ \E i \in 1..2 : sort_key(items[i], utcoff) > sort_key(items[i + 1], utcoff)

\* C4: in the sorted list no record without a publish timestamp stands before
\* a record that has one.
C4_UnknownLast ==
    Sorted =>
      \A i, j \in 1..Len(items) :
         (i < j /\ items[i].published_parsed = <<>>) => items[j].published_parsed = <<>>

----------------------------------------------------------------------------
(* Claims about the run *)

\* C5: a feed whose fetch or parse fails contributes no entry and does not
\* end the run: the loop goes on to the next feed of the plan.
C5_FailureIsolated ==
    [][failed' # failed => (pc' = "fetch" /\ idx' = idx + 1 /\ items' = items)]_vars

\* the value is set neither in the environment nor in the email section
Missing(envValue, configValue) == envValue = <<>> /\ configValue = <<>>

NothingFetchedOrSent ==
    /\ pc \in {"start", "exit1"}
    /\ idx = 0
    /\ feeds = <<>>
    /\ items = <<>>
    /\ failed = {}
    /\ sent = 0

\* an email is sent at most once, by the step that follows the cap, which
\* follows the sort, the deduplication and the fetch of every feed of the plan
SentOnceAtTheEnd ==
    /\ [](sent <= 1 /\ (sent = 1 => (pc = "done" /\ idx = Len(feeds))))
    /\ [][/\ sent' # sent => (pc = "send" /\ sent = 0 /\ sent' = 1)
          /\ (pc' = "send" /\ pc # "send") => pc = "cap"
          /\ (pc' = "cap" /\ pc # "cap") => pc = "sort"
          /\ (pc' = "sort" /\ pc # "sort") => pc = "dedup"
          /\ (pc' = "dedup" /\ pc # "dedup") => (pc = "fetch" /\ idx = Len(feeds))]_vars

\* C10 as stated: the run also ends with status 1, before any fetch, when the
\* sender address is missing.
C10_AnyMissingExits ==
    (\/ Missing(env.SMTP_USER, config.email.smtp_user)
     \/ Missing(env.SMTP_PASS, config.email.smtp_pass)
     \/ Missing(env.TO_EMAIL, config.email.to_email)
     \/ Missing(env.FROM_EMAIL, config.email.from_email))
    => NothingFetchedOrSent

\* C10, amended: an email is sent at most once and only after every feed is
\* fetched and the items are deduplicated, sorted and capped; when the SMTP
\* user, the SMTP password or the recipient is missing the run ends with
\* status 1 before any feed is fetched and without sending.
C10_MissingCredentialExits ==
    /\ SentOnceAtTheEnd
    /\ []((\/ Missing(env.SMTP_USER, config.email.smtp_user)
           \/ Missing(env.SMTP_PASS, config.email.smtp_pass)
           \/ Missing(env.TO_EMAIL, config.email.to_email))
          => NothingFetchedOrSent)

\* a run ended with status 1 because only the recipient is missing
C10_Witness ==
    /\ pc = "exit1"
    /\ Missing(env.TO_EMAIL, config.email.to_email)
    /\ ~Missing(env.SMTP_USER, config.email.smtp_user)
    /\ ~Missing(env.SMTP_PASS, config.email.smtp_pass)

----------------------------------------------------------------------------
(* matches_keywords on every text and keyword list *)

MaxTextLen == 3     \* characters of the text
MaxKeywords == 2    \* keywords in one list

Alphabet == {"a", "A", "C", NL}

Keywords == {<<>>, <<"A">>, <<"A", "c">>}

DefaultConfig ==
    [regions |-> <<>>, sectors |-> <<>>, queries |-> <<>>,
     keywords_include |-> <<>>, keywords_exclude |-> <<>>,
     max_items |-> 40, days_window |-> 1, email |-> NoEmailSection]

InitKw ==
    /\ pc = "kw_call"
    /\ arg \in [text : SeqsUpTo(Alphabet, MaxTextLen),
                includes : SeqsUpTo(Keywords, MaxKeywords),
                excludes : SeqsUpTo(Keywords, MaxKeywords)]
    /\ ret = <<>>
    /\ env = AllSet
    /\ config = DefaultConfig
    /\ utcoff = 0
    /\ now = Now0
    /\ feeds = <<>>
    /\ idx = 0
    /\ items = <<>>
    /\ admitted = <<>>
    /\ sent = 0
    /\ failed = {}

CallMatchesKeywords ==
    /\ pc = "kw_call"
    /\ ret' = matches_keywords(arg.text, arg.includes, arg.excludes)
    /\ pc' = "kw_return"
    /\ UNCHANGED <<env, config, utcoff, now, feeds, idx, items, admitted, sent, failed, arg>>

NextKw == CallMatchesKeywords

SpecKw == InitKw /\ [][NextKw]_vars

\* the same letter, in either case
SameLetter(c, d) == c = d \/ {c, d} = {"a", "A"} \/ {c, d} = {"c", "C"}

\* k occurs in t, letter case ignored
OccursIgnoringCase(k, t) ==
    \E i \in 0..(Len(t) - Len(k)) : \A j \in 1..Len(k) : SameLetter(k[j], t[i + j])

\* C7: the text is admitted iff (the include list is empty or one of its
\* keywords occurs in the text, case ignored) and no exclude keyword occurs
\* in the text, case ignored.
C7_KeywordRule ==
    pc = "kw_return" =>
      ret = (/\ \/ arg.includes = <<>>
                \/ \E k \in Range(arg.includes) : OccursIgnoringCase(k, arg.text)
             /\ ~\E k \in Range(arg.excludes) : OccursIgnoringCase(k, arg.text))

\* an include keyword and an exclude keyword both occur, in another case than
\* the text's, and the text is rejected
C7_Witness ==
    /\ pc = "kw_return"
    /\ ret = FALSE
    /\ \E k \in Range(arg.includes) : \E x \in Range(arg.excludes) :
          /\ k # <<>> /\ OccursIgnoringCase(k, arg.text) /\ ~IsSubstr(k, arg.text)
          /\ x # <<>> /\ OccursIgnoringCase(x, arg.text) /\ ~IsSubstr(x, arg.text)
          /\ x # k

----------------------------------------------------------------------------
(* within_last_days on every timestamp, window and host timezone *)

MaxDays == 2        \* days of the window

HostOffsets == {-3600, 0, 3600}

\* offsets to the window's edge, in seconds
EdgeOffsets == {-3601, -3600, -1, 0, 1, 3600, 3601}

Stamps(nowUtc) ==
    {<<>>} \cup {<<nowUtc - d * DaySecs + o>> : d \in 0..MaxDays, o \in EdgeOffsets}

InitRecency ==
    /\ pc = "wld_call"
    /\ now = Now0
    /\ utcoff \in HostOffsets
    /\ arg \in [published_parsed : Stamps(Now0), days : 0..MaxDays]
    /\ ret = <<>>
    /\ env = AllSet
    /\ config = DefaultConfig
    /\ feeds = <<>>
    /\ idx = 0
    /\ items = <<>>
    /\ admitted = <<>>
    /\ sent = 0
    /\ failed = {}

CallWithinLastDays ==
    /\ pc = "wld_call"
    /\ ret' = within_last_days(arg.published_parsed, arg.days, now, utcoff)
    /\ pc' = "wld_return"
    /\ UNCHANGED <<env, config, utcoff, now, feeds, idx, items, admitted, sent, failed, arg>>

NextRecency == CallWithinLastDays

SpecRecency == InitRecency /\ [][NextRecency]_vars

\* C6: the recency check admits exactly the entries with no timestamp and
\* those whose publish instant is at most windowDays days before now, whatever
\* the host's UTC offset.
C6_RecencyRule ==
    pc = "wld_return" =>
      ret = (\/ arg.published_parsed = <<>>
             \/ now - arg.published_parsed[1] <= arg.days * DaySecs)

----------------------------------------------------------------------------
(* The feed plan on every configuration *)

UnnamedSector == [name |-> <<>>, queries |-> <<"ai", "top stories">>]
EmptySector == [name |-> <<"Idle">>, queries |-> <<>>]

PlanConfigs ==
    [regions : {<<>>, << <<>> >>, << <<"US">> >>, << <<"US", "fr">> >>, << <<"XX">> >>},
     sectors : {<<>>, <<TechSector>>, <<TechSector, UnnamedSector>>, <<EmptySector>>},
     queries : {<<>>, << <<>> >>, << <<"top stories">> >>, << <<"ai", "top stories">> >>},
     keywords_include : {<<>>},
     keywords_exclude : {<<>>},
     max_items : {40},
     days_window : {1},
     email : {NoEmailSection}]

InitPlan ==
    /\ pc = "plan"
    /\ config \in PlanConfigs
    /\ env = AllSet
    /\ utcoff = 0
    /\ now = Now0
    /\ feeds = <<>>
    /\ idx = 0
    /\ items = <<>>
    /\ admitted = <<>>
    /\ sent = 0
    /\ failed = {}
    /\ arg = <<>>
    /\ ret = <<>>

NextPlan == BuildPlan

SpecPlan == InitPlan /\ [][NextPlan]_vars

\* the default queries: the configured ones, or the built-in pair when they
\* are absent or an empty list
EffectiveQueries(cfg) ==
    IF cfg.queries = <<>> \/ cfg.queries = << <<>> >> THEN <<"technology", "business">>
    ELSE cfg.queries[1]

\* C8: with no sectors the plan holds exactly one "General" entry per
\* (region, query) pair, regions outer and queries inner, the queries being
\* the configured default queries or the built-in pair when those are absent
\* or empty; so with a region and no sectors the plan is not empty.
C8_GeneralPlan ==
    (pc = "fetch" /\ config.sectors = <<>>) =>
      LET R == IF config.regions = <<>> THEN <<"US">> ELSE config.regions[1]
          Q == EffectiveQueries(config)
      IN /\ Len(feeds) = Len(R) * Len(Q)
         /\ \A i \in 1..Len(R) : \A j \in 1..Len(Q) :
               feeds[(i - 1) * Len(Q) + j] =
                  [sector |-> "General", region |-> R[i],
                   url |-> google_news_search_feed(Q[j], R[i])]
         /\ Len(R) >= 1 => feeds # <<>>

----------------------------------------------------------------------------
(* The digest as a function of the order in which the feeds are merged *)

\* lines 144-170: the item list after the feeds are read in the given order
\* (main reads them in plan order: order[i] = i)
MergeInOrder(fs, bodies, order, cfg, nowUtc, off) ==
    Flatten([i \in 1..Len(order) |->
        FeedItems(bodies[order[i]], fs[order[i]], cfg, nowUtc, off)])

\* lines 172-184: deduplicate, sort, cap
Digest(list, cfg, off) ==
    LET deduped == uniq(list, [x \in Range(list) |-> DedupKey(x)])
        sorted == SortDesc(deduped, [x \in Range(deduped) |-> sort_key(x, off)])
    IN SliceTo(sorted, cfg.max_items)

BizSector == [name |-> <<"Biz">>, queries |-> <<"ai">>]

MergeConfigs ==
    [regions : {<<>>},
     sectors : {<<TechSector, BizSector>>},
     queries : {<<>>},
     keywords_include : {<<>>},
     keywords_exclude : {<<>>},
     max_items : {1, 40},
     days_window : {1},
     email : {NoEmailSection}]

MergeEntries ==
    [title : {<<"t">>}, summary : {<<>>}, link : {<<"a">>, <<"x">>},
     source : {<<>>}, published : {<<>>},
     published_parsed : {<<>>, <<Now0 - 3600>>, <<Now0 - 7200>>}]

InitMerge ==
    /\ pc = "merge_call"
    /\ config \in MergeConfigs
    /\ feeds = BuildFeeds(config)
    /\ arg \in [bodies : [1..Len(feeds) -> SeqsUpTo(MergeEntries, MaxEntries)],
                order : {p \in [1..Len(feeds) -> 1..Len(feeds)] :
                            \A i, j \in 1..Len(feeds) : p[i] = p[j] => i = j}]
    /\ ret = <<>>
    /\ env = AllSet
    /\ utcoff = 0
    /\ now = Now0
    /\ idx = 0
    /\ items = <<>>
    /\ admitted = <<>>
    /\ sent = 0
    /\ failed = {}

\* the digest of the same feed results, merged in plan order and in arg.order
MergeBothWays ==
    /\ pc = "merge_call"
    /\ ret' = [plan |-> Digest(MergeInOrder(feeds, arg.bodies, [i \in 1..Len(feeds) |-> i],
                                            config, now, utcoff), config, utcoff),
               other |-> Digest(MergeInOrder(feeds, arg.bodies, arg.order,
                                             config, now, utcoff), config, utcoff)]
    /\ pc' = "merge_return"
    /\ UNCHANGED <<env, config, utcoff, now, feeds, idx, items, admitted, sent, failed, arg>>

NextMerge == MergeBothWays

SpecMerge == InitMerge /\ [][NextMerge]_vars

Contributed ==
    MergeInOrder(feeds, arg.bodies, [i \in 1..Len(feeds) |-> i], config, now, utcoff)

NoSharedKeys ==
    \A i, j \in 1..Len(Contributed) :
       i # j => /\ DedupKey(Contributed[i]) # DedupKey(Contributed[j])
                /\ sort_key(Contributed[i], utcoff) # sort_key(Contributed[j], utcoff)

=============================================================================
